---- MODULE Spec2Model ----
(***************************************************************************)
(* Model of x-search-mcp: the parameter normalisation of src/tools.ts and  *)
(* the request building / response extraction of src/api-client.ts.        *)
(*                                                                         *)
(* Strings are sequences of symbols.  A symbol is one character (" ", ",", *)
(* "@", "a") or an indivisible piece of text that the code never looks     *)
(* into (a fixed message, an object key, a decimal numeral).  The          *)
(* full-width commercial at U+FF20 is the symbol "U+FF20".                 *)
(***************************************************************************)
EXTENDS Integers, Sequences, FiniteSets, TLC

VARIABLES
    pc,         \* position of the tool invocation: idle, awaitHeaders, awaitBody, done
    apiKey,     \* XSearchAPIClient.apiKey, read once at construction
    tool,       \* name of the invoked tool ("search" for a direct client call)
    params,     \* the parsed tool parameters of the invocation
    options,    \* the SearchOptions handed to XSearchAPIClient.search
    request,    \* the JSON payload of the outbound POST, NoRequest before it
    fetchCount, \* number of fetch() calls issued by the invocation
    status,     \* response.status once the headers arrived, 0 before
    rawBody,    \* result of response.text(), NoBody before
    failure,    \* transport failure met by the invocation
    outcome,    \* how the invocation ended: returned text or thrown exception
    rawValue,   \* argument of a direct parseHandles call
    handles,    \* its result
    payload,    \* argument of a direct extractTextFromResponse call
    extracted   \* its result

vars == <<pc, apiKey, tool, params, options, request, fetchCount, status,
          rawBody, failure, outcome, rawValue, handles, payload, extracted>>

callVars == <<pc, apiKey, tool, params, options, request, fetchCount, status,
              rawBody, failure, outcome>>

-----------------------------------------------------------------------------
(* Bounds of the model *)

MaxHandleLen == 4   \* longest raw handle string given to parseHandles
MaxOutputs == 2     \* longest 'output' array of a response payload

-----------------------------------------------------------------------------
(* String primitives of the JavaScript runtime *)

FullWidthAt == "U+FF20"

IsSpace(c) == c \in {" ", "\n"}

RECURSIVE TrimStart(_)
TrimStart(s) ==
    IF s = <<>> THEN <<>>
    ELSE IF IsSpace(Head(s)) THEN TrimStart(Tail(s)) ELSE s

RECURSIVE TrimEnd(_)
TrimEnd(s) ==
    IF s = <<>> THEN <<>>
    ELSE IF IsSpace(s[Len(s)]) THEN TrimEnd(SubSeq(s, 1, Len(s) - 1)) ELSE s

\* String.prototype.trim
Trim(s) == TrimEnd(TrimStart(s))

\* String.prototype.replace with a global single-character pattern
ReplaceAll(s, from, to) ==
    IF s = <<>> THEN <<>>
    ELSE [i \in 1..Len(s) |-> IF s[i] = from THEN to ELSE s[i]]

\* String.prototype.split on a single-character separator
RECURSIVE Split(_, _)
Split(s, sep) ==
    IF \A i \in 1..Len(s) : s[i] # sep THEN <<s>>
    ELSE LET k == CHOOSE i \in 1..Len(s) :
                      /\ s[i] = sep
                      /\ \A j \in 1..(i - 1) : s[j] # sep
         IN <<SubSeq(s, 1, k - 1)>> \o Split(SubSeq(s, k + 1, Len(s)), sep)

\* Array.prototype.join
RECURSIVE Join(_, _)
Join(parts, sep) ==
    IF parts = <<>> THEN <<>>
    ELSE IF Len(parts) = 1 THEN parts[1]
    ELSE parts[1] \o <<sep>> \o Join(Tail(parts), sep)

StartsWith(s, c) == s # <<>> /\ Head(s) = c

-----------------------------------------------------------------------------
(* parseHandles, api-client.ts *)

\* the stripping step of the loop body, line 12
StripAt(handle) == IF StartsWith(handle, "@") THEN Tail(handle) ELSE handle

\* the for loop of parseHandles over the split parts, with its accumulator
RECURSIVE ParseParts(_, _)
ParseParts(parts, acc) ==
    IF parts = <<>> THEN acc
    ELSE LET trimmed == Trim(Head(parts))
             handle == StripAt(trimmed)
         IN IF trimmed = <<>> THEN ParseParts(Tail(parts), acc)
            ELSE IF handle # <<>> THEN ParseParts(Tail(parts), Append(acc, handle))
            ELSE ParseParts(Tail(parts), acc)

parseHandles(raw) ==
    IF raw = <<>> THEN <<>>
    ELSE ParseParts(Split(ReplaceAll(raw, FullWidthAt, "@"), ","), <<>>)

-----------------------------------------------------------------------------
(* JSON values as JSON.parse produces them.  An object is the sequence of   *)
(* its <<key, value>> members in insertion order.                           *)

JNull == [t |-> "null"]
Undefined == [t |-> "undefined"]
JBool(b) == [t |-> "bool", b |-> b]
JNum(n) == [t |-> "num", n |-> n]
JStr(s) == [t |-> "str", s |-> s]
JArr(a) == [t |-> "arr", a |-> a]
JObj(members) == [t |-> "obj", m |-> members]

HasKey(x, key) == x.t = "obj" /\ \E i \in 1..Len(x.m) : x.m[i][1] = key

\* property read x.key; reading a property of null or undefined throws
Get(x, key) ==
    IF HasKey(x, key)
    THEN x.m[CHOOSE i \in 1..Len(x.m) : x.m[i][1] = key][2]
    ELSE Undefined

GetThrows(x) == x.t \in {"null", "undefined"}

\* JavaScript truthiness
Truthy(x) ==
    CASE x.t \in {"null", "undefined"} -> FALSE
      [] x.t = "bool" -> x.b
      [] x.t = "num" -> x.n # 0
      [] x.t = "str" -> x.s # <<>>
      [] OTHER -> TRUE

RECURSIVE JsString(_)
\* String(x), also the conversion of a template literal
JsString(x) ==
    CASE x.t = "null" -> <<"null">>
      [] x.t = "undefined" -> <<"undefined">>
      [] x.t = "bool" -> IF x.b THEN <<"true">> ELSE <<"false">>
      [] x.t = "num" -> <<ToString(x.n)>>
      [] x.t = "str" -> x.s
      [] x.t = "arr" ->
            Join([i \in 1..Len(x.a) |->
                    IF x.a[i].t \in {"null", "undefined"} THEN <<>>
                    ELSE JsString(x.a[i])], ",")
      [] OTHER -> <<"[object Object]">>

\* escaping of a string by JSON.stringify (newline and double quote)
EscapeChar(c) ==
    CASE c = "\n" -> "\\n"
      [] c = "\"" -> "\\\""
      [] OTHER -> c

RECURSIVE Stringify(_)
\* JSON.stringify
Stringify(x) ==
    CASE x.t = "null" -> <<"null">>
      [] x.t = "bool" -> IF x.b THEN <<"true">> ELSE <<"false">>
      [] x.t = "num" -> <<ToString(x.n)>>
      [] x.t = "str" ->
            <<"\"">> \o [i \in 1..Len(x.s) |-> EscapeChar(x.s[i])] \o <<"\"">>
      [] x.t = "arr" ->
            <<"[">> \o Join([i \in 1..Len(x.a) |-> Stringify(x.a[i])], ",")
                   \o <<"]">>
      [] OTHER ->
            <<"{">> \o Join([i \in 1..Len(x.m) |->
                              <<"\"", x.m[i][1], "\"", ":">>
                                  \o Stringify(x.m[i][2])], ",")
                   \o <<"}">>

-----------------------------------------------------------------------------
(* extractTextFromResponse, api-client.ts *)

S(sym) == JStr(<<sym>>)

\* the inner loop over the blocks of a message content, lines 59-70
RECURSIVE CollectBlocks(_, _)
CollectBlocks(content, texts) ==
    IF content = <<>> THEN texts
    ELSE LET block == Head(content)
             textValue == IF Truthy(Get(block, "text")) THEN Get(block, "text")
                          ELSE Get(block, "output_text")
         IN CASE block.t = "str" ->
                    CollectBlocks(Tail(content),
                        IF block.s # <<>> THEN Append(texts, block.s) ELSE texts)
              [] block.t \notin {"str", "obj", "arr"} ->
                    CollectBlocks(Tail(content), texts)
              [] OTHER ->
                    CollectBlocks(Tail(content),
                        IF /\ Get(block, "type") \in {S("output_text"), S("text")}
                           /\ Truthy(textValue)
                        THEN Append(texts, JsString(textValue))
                        ELSE texts)

\* the outer loop over the entries of 'output', lines 43-71
RECURSIVE CollectOutputs(_, _)
CollectOutputs(outputs, texts) ==
    IF outputs = <<>> THEN texts
    ELSE LET item == Head(outputs)
             content == Get(item, "content")
         IN CASE item.t = "str" ->
                    CollectOutputs(Tail(outputs), Append(texts, item.s))
              [] item.t \notin {"str", "obj", "arr"} ->
                    CollectOutputs(Tail(outputs), texts)
              [] Get(item, "type") # S("message") ->
                    CollectOutputs(Tail(outputs), texts)
              [] content.t = "str" ->
                    CollectOutputs(Tail(outputs),
                        IF content.s # <<>> THEN Append(texts, content.s)
                        ELSE texts)
              [] content.t # "arr" ->
                    CollectOutputs(Tail(outputs), texts)
              [] OTHER ->
                    CollectOutputs(Tail(outputs), CollectBlocks(content.a, texts))

\* extractTextFromResponse looking at 'output' before output_text
extractOutputFirst(p) ==
    LET outputText == Get(p, "output_text")
        output == Get(p, "output")
        outputs == IF output.t = "arr" THEN output.a ELSE <<>>
        texts == CollectOutputs(outputs, <<>>)
    IN IF Len(texts) > 0 THEN Trim(Join(texts, "\n"))
       ELSE IF Truthy(outputText)
       THEN IF outputText.t = "arr"
            THEN Trim(Join([i \in 1..Len(outputText.a) |->
                               JsString(outputText.a[i])], "\n"))
            ELSE Trim(JsString(outputText))
       ELSE Stringify(p)

\* defined for every payload whose properties can be read (GetThrows is false)
extractTextFromResponse(p) ==
    LET outputText == Get(p, "output_text")
        output == Get(p, "output")
        outputs == IF output.t = "arr" THEN output.a ELSE <<>>
        texts == CollectOutputs(outputs, <<>>)
    IN IF Truthy(outputText)
       THEN IF outputText.t = "arr"
            THEN Trim(Join([i \in 1..Len(outputText.a) |->
                               JsString(outputText.a[i])], "\n"))
            ELSE Trim(JsString(outputText))
       ELSE IF Len(texts) > 0 THEN Trim(Join(texts, "\n"))
       ELSE Stringify(p)

-----------------------------------------------------------------------------
(* XSearchAPIClient.search, api-client.ts *)

NoRequest == [t |-> "none"]
NoBody == <<"<no body>">>
NoOptions == [query |-> Undefined]
NoFailure == [kind |-> "none", phase |-> "none"]
NoOutcome == [kind |-> "none", text |-> <<>>]
Returned(text) == [kind |-> "returned", text |-> text]
Threw(error) == [kind |-> "threw", text |-> error]

\* the fixed texts of the client, each one symbol
MissingKeyMessage == <<"XAI_API_KEY (or GROK_API_KEY) is not set.">>
ConnectFailedPrefix == <<"Grok API connection failed: ">>
ParseFailedPrefix == <<"Grok API response could not be parsed: ">>
ApiErrorPrefix(st) == <<"Grok API error(", ToString(st), "): ">>

\* what `${err}` renders for the rejection of fetch() or of response.text()
ErrorText(kind) ==
    IF kind = "timeout"
    THEN <<"TimeoutError: The operation was aborted due to timeout">>
    ELSE <<"TypeError: fetch failed">>

PropertyReadError == <<"TypeError: Cannot read properties of null">>

Nullish(x) == x.t \in {"null", "undefined"}

\* a ?? b
Coalesce(a, b) == IF Nullish(a) THEN b ELSE a

\* x?.length is truthy
HasLength(x) == x.t = "arr" /\ Len(x.a) > 0

Member(cond, key, value) == IF cond THEN << <<key, value>> >> ELSE <<>>

\* the configuration object with from_date always sent, null when unset
toolConfigWithNulls(o) ==
    << <<"max_results", Coalesce(o.maxResults, JNum(8))>>,
       <<"search_mode", Coalesce(o.searchMode, S("auto"))>>,
       <<"freshness", Coalesce(o.freshness, S("auto"))>>,
       <<"language", Coalesce(o.language, S("ja"))>> >>
    \o Member(HasLength(o.allowedHandles), "allowed_x_handles", o.allowedHandles)
    \o Member(HasLength(o.excludedHandles), "excluded_x_handles", o.excludedHandles)
    \o Member(TRUE, "from_date", Coalesce(o.fromDate, JNull))
    \o Member(Truthy(o.toDate), "to_date", o.toDate)
    \o Member(Truthy(o.enableImageUnderstanding),
              "enable_image_understanding", JBool(TRUE))
    \o Member(Truthy(o.enableVideoUnderstanding),
              "enable_video_understanding", JBool(TRUE))

\* lines 112-127: the x_search configuration object
toolConfig(o) ==
    << <<"max_results", Coalesce(o.maxResults, JNum(8))>>,
       <<"search_mode", Coalesce(o.searchMode, S("auto"))>>,
       <<"freshness", Coalesce(o.freshness, S("auto"))>>,
       <<"language", Coalesce(o.language, S("ja"))>> >>
    \o Member(HasLength(o.allowedHandles), "allowed_x_handles", o.allowedHandles)
    \o Member(HasLength(o.excludedHandles), "excluded_x_handles", o.excludedHandles)
    \o Member(Truthy(o.fromDate), "from_date", o.fromDate)
    \o Member(Truthy(o.toDate), "to_date", o.toDate)
    \o Member(Truthy(o.enableImageUnderstanding),
              "enable_image_understanding", JBool(TRUE))
    \o Member(Truthy(o.enableVideoUnderstanding),
              "enable_video_understanding", JBool(TRUE))

\* lines 129-138: the request payload; temperature is counted in tenths
requestPayload(o) ==
    JObj(<< <<"model", S("grok-4-0709")>>,
            <<"input", JArr(<< JObj(<< <<"role", S("system")>>,
                                       <<"content", o.systemPrompt>> >>),
                               JObj(<< <<"role", S("user")>>,
                                       <<"content", JStr(Trim(o.query.s))>> >>) >>)>>,
            <<"tools", JArr(<< JObj(<< <<"type", S("x_search")>>,
                                       <<"x_search", JObj(toolConfig(o))>> >>) >>)>>,
            <<"temperature", Coalesce(o.temperature, JNum(2))>>,
            <<"max_output_tokens", Coalesce(o.maxOutputTokens, JNum(900))>> >>)

\* lines 107-153: search up to its first await
SearchBegin(o) ==
    /\ options' = o
    /\ IF apiKey = <<>>
       THEN /\ pc' = "done"
            /\ outcome' = Returned(MissingKeyMessage)
            /\ UNCHANGED <<request, fetchCount>>
       ELSE /\ pc' = "awaitHeaders"
            /\ request' = requestPayload(o)
            /\ fetchCount' = fetchCount + 1
            /\ UNCHANGED outcome
    /\ UNCHANGED <<apiKey, status, rawBody, failure>>

\* JSON values the upstream may send
ErrorFields ==
    { JObj(<< <<"message", S("rate limited")>> >>),
      JObj(<< <<"message", JStr(<<>>)>>, <<"code", JNum(7)>> >>),
      JObj(<< <<"message", JNull>> >>),
      JObj(<< <<"message", JNum(5)>> >>),
      JObj(<< <<"code", JNum(7)>> >>),
      JArr(<< S("boom") >>),
      S("boom"), JStr(<<>>), JNull, JNum(5), JBool(TRUE) }

Message(content) == JObj(<< <<"type", S("message")>>, <<"content", content>> >>)
Block(type, key, value) == JObj(<< <<"type", S(type)>>, <<key, value>> >>)

JsonValues ==
    { JNull, JBool(TRUE), JBool(FALSE), JNum(0), JNum(7), S("abc"), JStr(<<>>),
      JArr(<<>>), JArr(<< JNum(1), S("x") >>), JObj(<<>>),
      JObj(<< <<"detail", S("down")>> >>),
      JObj(<< <<"output_text", S("hi")>> >>),
      JObj(<< <<"output_text", JStr(<<" ", "\n">>)>> >>),
      JObj(<< <<"output_text", JArr(<<>>)>>, <<"output", JArr(<< S("x") >>)>> >>),
      JObj(<< <<"output_text", JStr(<<>>)>>,
              <<"output", JArr(<< Message(JArr(<< Block("output_text", "text",
                                                         S("x")) >>)) >>)>> >>),
      JObj(<< <<"output", JArr(<< JStr(<<" ">>) >>)>> >>),
      JObj(<< <<"output", JArr(<< JStr(<<>>) >>)>> >>),
      JObj(<< <<"output", JArr(<< Message(S("a")), S("b") >>)>> >>),
      JObj(<< <<"id", S("r1")>>, <<"output", JArr(<<>>)>> >>) }
    \cup { JObj(<< <<"error", e>> >>) : e \in ErrorFields }

ParseError == [t |-> "SyntaxError"]

\* JSON.parse on the texts JSON.stringify produces for JsonValues, with
\* surrounding white space allowed; every other text is a syntax error
JsonParse(raw) ==
    IF \E x \in JsonValues : Stringify(x) = Trim(raw)
    THEN CHOOSE x \in JsonValues : Stringify(x) = Trim(raw)
    ELSE ParseError

\* errorMessage taking error.message whenever the key is present
errorMessagePresent(errorPayload) ==
    LET err == Get(errorPayload, "error")
    IN IF err.t \in {"obj", "arr"}
       THEN IF HasKey(err, "message") THEN JsString(Get(err, "message"))
            ELSE Stringify(err)
       ELSE IF err.t = "str" /\ err.s # <<>> THEN err.s
       ELSE Stringify(errorPayload)

\* lines 163-172: the message of an error response whose body parsed
errorMessage(errorPayload) ==
    LET err == Get(errorPayload, "error")
    IN IF err.t \in {"obj", "arr"}
       THEN IF Truthy(Get(err, "message")) THEN JsString(Get(err, "message"))
            ELSE Stringify(err)
       ELSE IF err.t = "str" /\ err.s # <<>> THEN err.s
       ELSE Stringify(errorPayload)

\* lines 161-187: search after response.text() resolved
SearchResult(st, raw) ==
    LET parsed == JsonParse(raw)
    IN IF st >= 300
       THEN IF parsed = ParseError \/ GetThrows(parsed)
            THEN Returned(ApiErrorPrefix(st) \o raw)
            ELSE Returned(ApiErrorPrefix(st) \o errorMessage(parsed))
       ELSE IF parsed = ParseError THEN Returned(ParseFailedPrefix \o raw)
       ELSE IF GetThrows(parsed) THEN Threw(PropertyReadError)
       ELSE LET text == extractTextFromResponse(parsed)
            IN Returned(IF text # <<>> THEN text ELSE Stringify(parsed))

\* a rejected fetch() answered by a second attempt
FetchRejectsRetry(kind) ==
    /\ pc = "awaitHeaders"
    /\ pc' = "awaitHeaders"
    /\ failure' = [kind |-> kind, phase |-> "headers"]
    /\ fetchCount' = fetchCount + 1
    /\ UNCHANGED <<apiKey, tool, params, options, request, status, outcome,
                   rawBody, rawValue, handles, payload, extracted>>

\* fetch() rejects: network error, or the timeout signal fires first
FetchRejects(kind) ==
    /\ pc = "awaitHeaders"
    /\ pc' = "done"
    /\ failure' = [kind |-> kind, phase |-> "headers"]
    /\ outcome' = Returned(ConnectFailedPrefix \o ErrorText(kind))
    /\ UNCHANGED <<apiKey, tool, params, options, request, fetchCount, status,
                   rawBody, rawValue, handles, payload, extracted>>

\* fetch() resolves with the response headers
HeadersArrive(st) ==
    /\ pc = "awaitHeaders"
    /\ pc' = "awaitBody"
    /\ status' = st
    /\ UNCHANGED <<apiKey, tool, params, options, request, fetchCount, rawBody,
                   failure, outcome, rawValue, handles, payload, extracted>>

\* response.text() rejects: line 159 is outside every try block
BodyReadRejects(kind) ==
    /\ pc = "awaitBody"
    /\ pc' = "done"
    /\ failure' = [kind |-> kind, phase |-> "body"]
    /\ outcome' = Threw(ErrorText(kind))
    /\ UNCHANGED <<apiKey, tool, params, options, request, fetchCount, status,
                   rawBody, rawValue, handles, payload, extracted>>

\* response.text() resolves and search runs to its end
BodyArrives(raw) ==
    /\ pc = "awaitBody"
    /\ pc' = "done"
    /\ rawBody' = raw
    /\ outcome' = SearchResult(status, raw)
    /\ UNCHANGED <<apiKey, tool, params, options, request, fetchCount, status,
                   failure, rawValue, handles, payload, extracted>>

-----------------------------------------------------------------------------
(* validateIsoDate, api-client.ts.  A date text is one symbol; the two      *)
(* tests of line 21 are tabulated for the texts the model uses.             *)

DateInputs == { <<>>, <<"2024-01-15">>, <<"2024-13-99">>, <<"not-a-date">> }

\* /^\d{4}-\d{2}-\d{2}/.test(value)
MatchesDatePattern(value) == value \in { <<"2024-01-15">>, <<"2024-13-99">> }

\* !isNaN(new Date(value).getTime())
DateParses(value) == value \in { <<"2024-01-15">> }

DateMessage(label, value) == <<label, " must be given as YYYY-MM-DD: ">> \o value

\* TRUE when validateIsoDate throws
validateIsoDateThrows(value) ==
    value # <<>> /\ (~MatchesDatePattern(value) \/ ~DateParses(value))

-----------------------------------------------------------------------------
(* The three tool handlers, tools.ts *)

NoParams == [query |-> <<>>]
NotCalled == [done |-> FALSE, v |-> <<>>]
Called(v) == [done |-> TRUE, v |-> v]

QueryRequiredMessage == <<"Please give a search query.">>
BothHandlesMessage ==
    <<"allowed_x_handles and excluded_x_handles cannot be given together.">>
UsernameRequiredMessage == <<"Please give a user name.">>
TopicRequiredMessage == <<"Please give a topic to analyse.">>
AspectMessage(aspect) ==
    <<"aspect must be one of summary/sentiment/timeline (given: ">>
        \o aspect \o <<")">>

SEARCH_SYSTEM_PROMPT == S("SEARCH_SYSTEM_PROMPT")
USER_SEARCH_SYSTEM_PROMPT == S("USER_SEARCH_SYSTEM_PROMPT")

\* ANALYSIS_PROMPTS[aspect]
ANALYSIS_PROMPTS(aspect) ==
    IF aspect \in { <<"summary">>, <<"sentiment">>, <<"timeline">> }
    THEN JStr(<<"ANALYSIS_PROMPTS.">> \o aspect)
    ELSE Undefined

\* String.prototype.toLowerCase on the symbols the model uses
LowerSymbol(c) ==
    CASE c = "WEEK" -> "week"
      [] c = "LATEST" -> "latest"
      [] c = "SENTIMENT" -> "sentiment"
      [] OTHER -> c

toLowerCase(s) ==
    IF s = <<>> THEN <<>> ELSE [i \in 1..Len(s) |-> LowerSymbol(s[i])]

\* s.toLowerCase() || fallback
LowerOr(s, fallback) ==
    IF toLowerCase(s) # <<>> THEN JStr(toLowerCase(s)) ELSE S(fallback)

\* s || null
OrNull(s) == IF s # <<>> THEN JStr(s) ELSE JNull

Min(a, b) == IF a < b THEN a ELSE b
Max(a, b) == IF a > b THEN a ELSE b

\* the clamp without its lower bound
clampUpperOnly(n) == Min(25, n)

\* Math.max(1, Math.min(25, max_results))
clampMaxResults(n) == Max(1, Min(25, n))

\* Math.max(0.0, Math.min(1.0, temperature)), in tenths
clampTemperature(t) == Max(0, Min(10, t))

\* the handles of parseHandles as a JSON array
HandleArray(hs) ==
    JArr(IF hs = <<>> THEN <<>> ELSE [i \in 1..Len(hs) |-> JStr(hs[i])])

\* a SearchOptions object with no property set
EmptyOptions ==
    [query |-> Undefined, systemPrompt |-> Undefined, maxResults |-> Undefined,
     allowedHandles |-> Undefined, excludedHandles |-> Undefined,
     fromDate |-> Undefined, toDate |-> Undefined, freshness |-> Undefined,
     searchMode |-> Undefined, language |-> Undefined,
     enableImageUnderstanding |-> Undefined,
     enableVideoUnderstanding |-> Undefined, temperature |-> Undefined,
     maxOutputTokens |-> Undefined, timeoutSeconds |-> Undefined]

\* a handler returns textResult(text) without calling the client
Finish(text) ==
    /\ pc' = "done"
    /\ outcome' = Returned(text)
    /\ UNCHANGED <<apiKey, options, request, fetchCount, status, rawBody, failure>>

\* the try block around the two validateIsoDate calls
DateFailure(p) ==
    IF validateIsoDateThrows(p.from_date)
    THEN DateMessage("from_date", p.from_date)
    ELSE IF validateIsoDateThrows(p.to_date)
    THEN DateMessage("to_date", p.to_date)
    ELSE <<>>

\* lines 118-133
searchPostsOptions(p) ==
    LET allowed == parseHandles(p.allowed_x_handles)
        excluded == parseHandles(p.excluded_x_handles)
    IN [EmptyOptions EXCEPT
          !.query = JStr(p.query),
          !.systemPrompt = SEARCH_SYSTEM_PROMPT,
          !.maxResults = JNum(clampMaxResults(p.max_results)),
          !.allowedHandles =
              IF Len(allowed) > 0 THEN HandleArray(allowed) ELSE JNull,
          !.excludedHandles =
              IF Len(excluded) > 0 THEN HandleArray(excluded) ELSE JNull,
          !.fromDate = OrNull(p.from_date),
          !.toDate = OrNull(p.to_date),
          !.freshness = LowerOr(p.freshness, "auto"),
          !.searchMode = LowerOr(p.search_mode, "auto"),
          !.language = JStr(p.language),
          !.enableImageUnderstanding = JBool(p.enable_image_understanding),
          !.enableVideoUnderstanding = JBool(p.enable_video_understanding),
          !.temperature = JNum(clampTemperature(p.temperature)),
          !.maxOutputTokens = JNum(p.max_output_tokens)]

\* search_posts without the exclusivity check of lines 105-109
InvokeSearchPostsUnchecked(p) ==
    /\ pc = "idle"
    /\ tool' = "search_posts"
    /\ params' = p
    /\ IF Trim(p.query) = <<>> THEN Finish(QueryRequiredMessage)
       ELSE IF DateFailure(p) # <<>> THEN Finish(DateFailure(p))
       ELSE SearchBegin(searchPostsOptions(p))
    /\ UNCHANGED <<rawValue, handles, payload, extracted>>

\* search_posts, lines 95-136
InvokeSearchPosts(p) ==
    /\ pc = "idle"
    /\ tool' = "search_posts"
    /\ params' = p
    /\ IF Trim(p.query) = <<>> THEN Finish(QueryRequiredMessage)
       ELSE IF /\ Len(parseHandles(p.allowed_x_handles)) > 0
               /\ Len(parseHandles(p.excluded_x_handles)) > 0
       THEN Finish(BothHandlesMessage)
       ELSE IF DateFailure(p) # <<>> THEN Finish(DateFailure(p))
       ELSE SearchBegin(searchPostsOptions(p))
    /\ UNCHANGED <<rawValue, handles, payload, extracted>>

\* params.username.trim().replace(/^@/, ""), line 166
userHandle(username) ==
    LET trimmed == Trim(username)
    IN IF StartsWith(trimmed, "@") THEN Tail(trimmed) ELSE trimmed

\* lines 167-170
userSearchQuery(p) ==
    IF Trim(p.query) # <<>>
    THEN <<"@">> \o userHandle(p.username) \o <<" ">> \o Trim(p.query)
    ELSE <<"@">> \o userHandle(p.username) \o <<" posts">>

\* lines 181-192
searchUserPostsOptions(p) ==
    [EmptyOptions EXCEPT
       !.query = JStr(userSearchQuery(p)),
       !.systemPrompt = USER_SEARCH_SYSTEM_PROMPT,
       !.maxResults = JNum(clampMaxResults(p.max_results)),
       !.allowedHandles = JArr(<< JStr(userHandle(p.username)) >>),
       !.fromDate = OrNull(p.from_date),
       !.toDate = OrNull(p.to_date),
       !.freshness = LowerOr(p.freshness, "auto"),
       !.searchMode = LowerOr(p.search_mode, "latest"),
       !.language = JStr(p.language),
       !.maxOutputTokens = JNum(p.max_output_tokens)]

\* search_user_posts, lines 161-195
InvokeSearchUserPosts(p) ==
    /\ pc = "idle"
    /\ tool' = "search_user_posts"
    /\ params' = p
    /\ IF Trim(p.username) = <<>> THEN Finish(UsernameRequiredMessage)
       ELSE IF DateFailure(p) # <<>> THEN Finish(DateFailure(p))
       ELSE SearchBegin(searchUserPostsOptions(p))
    /\ UNCHANGED <<rawValue, handles, payload, extracted>>

\* params.aspect?.toLowerCase() || "summary", line 229
topicAspect(p) ==
    IF toLowerCase(p.aspect) # <<>> THEN toLowerCase(p.aspect) ELSE <<"summary">>

\* lines 246-257; temperature 0.3 in tenths
analyzeTopicOptions(p) ==
    [EmptyOptions EXCEPT
       !.query = JStr(Trim(p.topic)),
       !.systemPrompt = ANALYSIS_PROMPTS(topicAspect(p)),
       !.maxResults = JNum(clampMaxResults(p.max_results)),
       !.fromDate = OrNull(p.from_date),
       !.toDate = OrNull(p.to_date),
       !.freshness = LowerOr(p.freshness, "week"),
       !.searchMode = S("auto"),
       !.language = JStr(p.language),
       !.temperature = JNum(3),
       !.maxOutputTokens = JNum(p.max_output_tokens)]

\* analyze_topic, lines 224-260
InvokeAnalyzeTopic(p) ==
    /\ pc = "idle"
    /\ tool' = "analyze_topic"
    /\ params' = p
    /\ IF Trim(p.topic) = <<>> THEN Finish(TopicRequiredMessage)
       ELSE IF ~Truthy(ANALYSIS_PROMPTS(topicAspect(p)))
       THEN Finish(AspectMessage(p.aspect))
       ELSE IF DateFailure(p) # <<>> THEN Finish(DateFailure(p))
       ELSE SearchBegin(analyzeTopicOptions(p))
    /\ UNCHANGED <<rawValue, handles, payload, extracted>>

-----------------------------------------------------------------------------
(* The tool parameters, responses and failures the model draws from *)

MaxResultsInputs == { 0, 8, 25, 100 }
MaxOutputTokensInputs == { 900, 5000 }
FreshnessInputs == { <<>>, <<"WEEK">> }

SearchPostsParams ==
    [ query : { <<>>, <<"q", " ">> },
      max_results : MaxResultsInputs,
      allowed_x_handles : { <<>>, <<"a">>, <<"@", "@", "a">>, <<" ", ",">> },
      excluded_x_handles : { <<>>, <<"U+FF20", "b", ",", "c">>, <<"@">> },
      from_date : { <<>>, <<"2024-01-15">>, <<"not-a-date">> },
      to_date : { <<>>, <<"2024-13-99">>, <<"2024-01-15">> },
      freshness : FreshnessInputs,
      search_mode : { <<"auto">> },
      language : { <<"ja">> },
      enable_image_understanding : BOOLEAN,
      enable_video_understanding : BOOLEAN,
      temperature : { 2, 15 },
      max_output_tokens : MaxOutputTokensInputs ]

SearchUserPostsParams ==
    [ username : { <<>>, <<" ">>, <<"a">>, <<" ", "@", "a", " ">>, <<"@">>,
                   <<"@", "@", "a">>, <<"U+FF20", "a">>, <<"@", " ", "a">> },
      query : { <<>>, <<"q">> },
      max_results : MaxResultsInputs,
      from_date : { <<>>, <<"2024-01-15">>, <<"not-a-date">> },
      to_date : { <<>>, <<"2024-13-99">> },
      freshness : FreshnessInputs,
      search_mode : { <<>>, <<"LATEST">> },
      language : { <<"ja">>, <<>> },
      max_output_tokens : MaxOutputTokensInputs ]

AnalyzeTopicParams ==
    [ topic : { <<" ">>, <<" ", "t">> },
      aspect : { <<>>, <<"SENTIMENT">>, <<"timeline">>, <<"bogus">> },
      max_results : MaxResultsInputs,
      from_date : { <<>>, <<"2024-01-15">>, <<"2024-13-99">> },
      to_date : { <<>>, <<"not-a-date">> },
      freshness : FreshnessInputs,
      language : { <<"ja">>, <<"en">> },
      max_output_tokens : MaxOutputTokensInputs ]

FailureKinds == { "network", "timeout" }

ToolStatuses == { 200, 429 }

ToolBodies ==
    { Stringify(JObj(<< <<"output_text", S("hi")>> >>)),
      Stringify(JObj(<< <<"error", JObj(<< <<"message", S("rate limited")>> >>)>> >>)),
      <<"null">>,
      <<"not json">> }

Init ==
    /\ pc = "idle"
    /\ apiKey \in { <<>>, <<"xai-key">> }
    /\ tool = "none"
    /\ params = NoParams
    /\ options = NoOptions
    /\ request = NoRequest
    /\ fetchCount = 0
    /\ status = 0
    /\ rawBody = NoBody
    /\ failure = NoFailure
    /\ outcome = NoOutcome
    /\ rawValue = <<>>
    /\ handles = NotCalled
    /\ payload = JObj(<<>>)
    /\ extracted = NotCalled

Next ==
    \/ pc = "idle" /\ \E p \in SearchPostsParams : InvokeSearchPosts(p)
    \/ pc = "idle" /\ \E p \in SearchUserPostsParams : InvokeSearchUserPosts(p)
    \/ pc = "idle" /\ \E p \in AnalyzeTopicParams : InvokeAnalyzeTopic(p)
    \/ pc = "awaitHeaders" /\ \E kind \in FailureKinds : FetchRejects(kind)
    \/ pc = "awaitHeaders" /\ \E st \in ToolStatuses : HeadersArrive(st)
    \/ pc = "awaitBody" /\ \E kind \in FailureKinds : BodyReadRejects(kind)
    \/ pc = "awaitBody" /\ \E raw \in ToolBodies : BodyArrives(raw)

Spec == Init /\ [][Next]_vars

-----------------------------------------------------------------------------
(* XSearchAPIClient.search called on its own, with every response *)

DirectOptions ==
    { [EmptyOptions EXCEPT !.query = JStr(<<" ", "q">>),
                           !.systemPrompt = SEARCH_SYSTEM_PROMPT],
      [EmptyOptions EXCEPT !.query = S("q"),
                           !.systemPrompt = SEARCH_SYSTEM_PROMPT,
                           !.maxResults = JNum(25),
                           !.allowedHandles = JArr(<<>>),
                           !.excludedHandles = JArr(<< S("b") >>),
                           !.fromDate = JStr(<<>>),
                           !.toDate = S("2024-01-15"),
                           !.enableImageUnderstanding = JBool(FALSE),
                           !.enableVideoUnderstanding = JBool(TRUE),
                           !.timeoutSeconds = JNum(5)],
      [EmptyOptions EXCEPT !.query = S("q"),
                           !.systemPrompt = USER_SEARCH_SYSTEM_PROMPT,
                           !.allowedHandles = JArr(<< S("a") >>),
                           !.excludedHandles = JNull,
                           !.fromDate = JNull,
                           !.language = S("en")] }

Statuses == { 200, 204, 299, 300, 404, 429, 500 }

NonJsonBodies == { <<>>, <<"not json">>, <<"{", "\"", "error", "\"", ":">> }

Bodies ==
    { Stringify(x) : x \in JsonValues }
    \cup { <<" ">> \o Stringify(x) \o <<"\n">> :
               x \in { JNull, JObj(<< <<"output_text", S("hi")>> >>) } }
    \cup NonJsonBodies

SearchCall(o) ==
    /\ pc = "idle"
    /\ tool' = "search"
    /\ params' = NoParams
    /\ SearchBegin(o)
    /\ UNCHANGED <<rawValue, handles, payload, extracted>>

NextSearch ==
    \/ pc = "idle" /\ \E o \in DirectOptions : SearchCall(o)
    \/ pc = "awaitHeaders" /\ \E kind \in FailureKinds : FetchRejects(kind)
    \/ pc = "awaitHeaders" /\ \E st \in Statuses : HeadersArrive(st)
    \/ pc = "awaitBody" /\ \E kind \in FailureKinds : BodyReadRejects(kind)
    \/ pc = "awaitBody" /\ \E raw \in Bodies : BodyArrives(raw)

SpecSearch == Init /\ [][NextSearch]_vars

-----------------------------------------------------------------------------
(* parseHandles called on its own, on every string up to MaxHandleLen *)

SeqsUpTo(X, n) == UNION { [1..k -> X] : k \in 0..n }

HandleSymbols == { "a", "b", "@", FullWidthAt, ",", " " }

InitParse ==
    /\ pc = "idle"
    /\ apiKey = <<>>
    /\ tool = "none"
    /\ params = NoParams
    /\ options = NoOptions
    /\ request = NoRequest
    /\ fetchCount = 0
    /\ status = 0
    /\ rawBody = NoBody
    /\ failure = NoFailure
    /\ outcome = NoOutcome
    /\ rawValue \in SeqsUpTo(HandleSymbols, MaxHandleLen)
    /\ handles = NotCalled
    /\ payload = JObj(<<>>)
    /\ extracted = NotCalled

ParseHandlesCall ==
    /\ ~handles.done
    /\ handles' = Called(parseHandles(rawValue))
    /\ UNCHANGED <<callVars, rawValue, payload, extracted>>

NextParse == ParseHandlesCall

SpecParse == InitParse /\ [][NextParse]_vars

-----------------------------------------------------------------------------
(* extractTextFromResponse called on its own *)

OutputTextValues ==
    { Undefined, JStr(<<>>), JStr(<<" ", "hi", "\n">>), JStr(<<" ">>),
      JArr(<< S("a"), JNum(1), JNull, JStr(<<" ">>) >>), JArr(<<>>),
      JNum(0), JNum(5), JNull, JBool(FALSE), JBool(TRUE), JObj(<<>>) }

Contents ==
    { Undefined, S("c"), JStr(<<>>), JNum(3), JArr(<<>>),
      JArr(<< S("b"), JStr(<<>>) >>),
      JArr(<< Block("output_text", "text", S("x")), JNull,
              Block("text", "output_text", JStr(<<"y", " ">>)) >>),
      JArr(<< Block("image", "text", S("z")),
              JObj(<< <<"type", S("text")>>, <<"text", JStr(<<>>)>>,
                      <<"output_text", S("w")>> >>),
              Block("text", "text", JNum(5)),
              JObj(<< <<"type", S("text")>> >>) >>) }

OutputItems ==
    { JStr(<<"s", " ">>), JStr(<<>>), JNum(7), JNull, JArr(<< S("n") >>),
      JObj(<< <<"type", S("reasoning")>>, <<"content", S("r")>> >>) }
    \cup { JObj(<< <<"type", S("message")>> >>
                \o Member(c # Undefined, "content", c)) : c \in Contents }

OutputValues ==
    { Undefined, S("o") } \cup { JArr(a) : a \in SeqsUpTo(OutputItems, MaxOutputs) }

Payloads ==
    { JObj(Member(ot # Undefined, "output_text", ot)
               \o Member(o # Undefined, "output", o)) :
          ot \in OutputTextValues, o \in OutputValues }

InitExtract ==
    /\ pc = "idle"
    /\ apiKey = <<>>
    /\ tool = "none"
    /\ params = NoParams
    /\ options = NoOptions
    /\ request = NoRequest
    /\ fetchCount = 0
    /\ status = 0
    /\ rawBody = NoBody
    /\ failure = NoFailure
    /\ outcome = NoOutcome
    /\ rawValue = <<>>
    /\ handles = NotCalled
    /\ payload \in Payloads
    /\ extracted = NotCalled

ExtractCall ==
    /\ ~extracted.done
    /\ extracted' = Called(extractTextFromResponse(payload))
    /\ UNCHANGED <<callVars, rawValue, handles, payload>>

NextExtract == ExtractCall

SpecExtract == InitExtract /\ [][NextExtract]_vars

-----------------------------------------------------------------------------
(* Properties *)

\* the x_search configuration object of the outbound request
XSearchConfig == Get(Get(request, "tools").a[1], "x_search")

\* the response body arrived and search ran to its end
Answered == pc = "done" /\ failure = NoFailure /\ status # 0

\* C1: for every response with a success status (< 300) and every body,
\* search returns a non-empty string and never throws: the message embedding
\* the raw body when the body does not parse, else the extracted text or,
\* when that is empty, the serialized payload.
C1_SuccessAlwaysReturnsText ==
    (Answered /\ status < 300) =>
        /\ outcome.kind = "returned"
        /\ outcome.text # <<>>
        /\ LET parsed == JsonParse(rawBody)
           IN IF parsed = ParseError
              THEN outcome.text = ParseFailedPrefix \o rawBody
              ELSE outcome.text \in { extractTextFromResponse(parsed),
                                      Stringify(parsed) }

\* C2: a network failure or the expiry of the timeout at any point after the
\* request started, before the headers or while the body is read, makes the
\* call return a text that embeds the underlying error; nothing is thrown.
C2_TransportFailureReturnsText ==
    (pc = "done" /\ failure.kind # "none") =>
        /\ outcome.kind = "returned"
        /\ LET err == ErrorText(failure.kind)
               n == Len(outcome.text)
           IN /\ n >= Len(err)
              /\ SubSeq(outcome.text, n - Len(err) + 1, n) = err

\* C3 as stated: for every response with status >= 300 search returns
\* '<prefix>(<status>): <message>' where <message> is error.message if the
\* error object has one, else the error object serialized; a non-empty string
\* error itself; otherwise the parsed payload serialized; and the raw body
\* when the body is not JSON.
C3_MessageWhenPresent ==
    (Answered /\ status >= 300) =>
        LET parsed == JsonParse(rawBody)
            err == Get(parsed, "error")
        IN outcome = Returned(ApiErrorPrefix(status) \o
              (IF parsed = ParseError THEN rawBody
               ELSE IF err.t \in {"obj", "arr"}
               THEN IF HasKey(err, "message") THEN JsString(Get(err, "message"))
                    ELSE Stringify(err)
               ELSE IF err.t = "str" /\ err.s # <<>> THEN err.s
               ELSE Stringify(parsed)))

\* C3 amended: for every response with status >= 300 search returns
\* '<prefix>(<status>): <message>' where <message> is error.message if the
\* error object has a truthy one, else the error object serialized; a
\* non-empty string error itself; otherwise the parsed payload serialized;
\* and the raw body when the body is not JSON or is the JSON value null.
C3_MessageWhenTruthy ==
    (Answered /\ status >= 300) =>
        LET parsed == JsonParse(rawBody)
            err == Get(parsed, "error")
            message == Get(err, "message")
        IN outcome = Returned(ApiErrorPrefix(status) \o
              (IF parsed \in {ParseError, JNull} THEN rawBody
               ELSE IF err.t \in {"obj", "arr"}
               THEN IF /\ HasKey(err, "message")
                       /\ message \notin {JNull, JStr(<<>>), JNum(0), JBool(FALSE)}
                    THEN JsString(message)
                    ELSE Stringify(err)
               ELSE IF err.t = "str" /\ err.s # <<>> THEN err.s
               ELSE Stringify(parsed)))

C3_Witness ==
    /\ Answered
    /\ status = 429
    /\ rawBody = Stringify(JObj(<< <<"error",
                     JObj(<< <<"message", JStr(<<>>)>>, <<"code", JNum(7)>> >>)>> >>))
    /\ outcome.text = ApiErrorPrefix(429)
                        \o <<"{", "\"", "message", "\"", ":", "\"", "\"", ",",
                             "\"", "code", "\"", ":", "7", "}">>

\* C4: in search_posts, when both handle parameters parse to non-empty lists
\* the invocation ends with an explanatory text and issues no HTTP request.
C4_ExclusiveHandlesNoRequest ==
    (/\ tool = "search_posts"
     /\ Len(parseHandles(params.allowed_x_handles)) > 0
     /\ Len(parseHandles(params.excluded_x_handles)) > 0) =>
        /\ fetchCount = 0
        /\ request = NoRequest
        /\ pc = "done"
        /\ outcome.kind = "returned"
        /\ outcome.text \in { QueryRequiredMessage, BothHandlesMessage }

C4_Witness ==
    /\ tool = "search_posts"
    /\ apiKey # <<>>
    /\ params.allowed_x_handles = <<"@", "@", "a">>
    /\ params.excluded_x_handles = <<"U+FF20", "b", ",", "c">>
    /\ params.from_date = <<>>
    /\ pc = "done"
    /\ outcome = Returned(BothHandlesMessage)
    /\ fetchCount = 0

\* C5: the list parseHandles returns has no empty element and no element that
\* begins with '@' or the full-width '@'; its elements come from the comma
\* separated parts in input order, duplicates kept; an empty or
\* white-space-only input yields the empty list.
C5_HandlesAreBare ==
    handles.done =>
        LET hs == handles.v
            parts == Split(ReplaceAll(rawValue, FullWidthAt, "@"), ",")
            IsSuffix(h, part) ==
                Len(h) <= Len(part)
                    /\ SubSeq(part, Len(part) - Len(h) + 1, Len(part)) = h
        IN /\ \A i \in 1..Len(hs) :
                  hs[i] # <<>> /\ Head(hs[i]) \notin {"@", FullWidthAt}
           /\ \E f \in [1..Len(hs) -> 1..Len(parts)] :
                  /\ \A i, j \in 1..Len(hs) : i < j => f[i] < f[j]
                  /\ \A i \in 1..Len(hs) : IsSuffix(hs[i], Trim(parts[f[i]]))
           /\ (Trim(rawValue) = <<>> => hs = <<>>)

\* the text fragments one entry of 'output' contributes, in order
FragmentsOf(item) ==
    LET content == Get(item, "content")
        text(block) == IF Truthy(Get(block, "text")) THEN Get(block, "text")
                       ELSE Get(block, "output_text")
        Wanted(block) ==
            \/ block.t = "str" /\ block.s # <<>>
            \/ /\ block.t = "obj"
               /\ Get(block, "type") \in {S("output_text"), S("text")}
               /\ Truthy(text(block))
        wanted == IF content.t = "arr" THEN SelectSeq(content.a, Wanted) ELSE <<>>
    IN IF item.t = "str" THEN << item.s >>
       ELSE IF item.t # "obj" \/ Get(item, "type") # S("message") THEN <<>>
       ELSE IF content.t = "str" THEN (IF content.s = <<>> THEN <<>> ELSE << content.s >>)
       ELSE [i \in 1..Len(wanted) |->
                IF wanted[i].t = "str" THEN wanted[i].s
                ELSE JsString(text(wanted[i]))]

RECURSIVE Flatten(_)
Flatten(seqs) == IF seqs = <<>> THEN <<>> ELSE Head(seqs) \o Flatten(Tail(seqs))

C7_MaxResultsClamped ==
    (tool \in {"search_posts", "search_user_posts", "analyze_topic"}) =>
        LET m == params.max_results
            BadDate(d) == d \notin { <<>>, <<"2024-01-15">> }
            Blank(x) == \A i \in 1..Len(x) : x[i] \in {" ", "\n"}
            Rejected ==
                \/ BadDate(params.from_date)
                \/ BadDate(params.to_date)
                \/ /\ tool = "search_posts"
                   /\ \/ Blank(params.query)
                      \/ /\ parseHandles(params.allowed_x_handles) # <<>>
                         /\ parseHandles(params.excluded_x_handles) # <<>>
                \/ tool = "search_user_posts" /\ Blank(params.username)
                \/ /\ tool = "analyze_topic"
                   /\ \/ Blank(params.topic)
                      \/ params.aspect = <<"bogus">>
        IN /\ (request = NoRequest) <=> (apiKey = <<>> \/ Rejected)
           /\ request # NoRequest =>
                 /\ Get(XSearchConfig, "max_results") =
                        JNum(IF m < 1 THEN 1 ELSE IF m > 25 THEN 25 ELSE m)
                 /\ Get(request, "max_output_tokens") =
                        JNum(params.max_output_tokens)

C7_Witness ==
    /\ tool = "analyze_topic"
    /\ params.max_results = 100
    /\ params.max_output_tokens = 5000
    /\ request # NoRequest
    /\ Get(XSearchConfig, "max_results") = JNum(25)
    /\ Get(request, "max_output_tokens") = JNum(5000)

\* C8: the x_search configuration of every outbound request holds the four
\* keys max_results, search_mode, freshness and language, holds each optional
\* key exactly when the caller supplied a non-empty list, a non-empty date or
\* a true flag, and never holds a null value.
C8_SparseConfig ==
    request # NoRequest =>
        LET cfg == XSearchConfig
            keys == { cfg.m[i][1] : i \in 1..Len(cfg.m) }
            Always == { "max_results", "search_mode", "freshness", "language" }
            posts == tool = "search_posts"
        IN /\ Always \subseteq keys
           /\ keys \subseteq Always \cup
                 { "allowed_x_handles", "excluded_x_handles", "from_date",
                   "to_date", "enable_image_understanding",
                   "enable_video_understanding" }
           /\ Len(cfg.m) = Cardinality(keys)
           /\ \A i \in 1..Len(cfg.m) : cfg.m[i][2] \notin {JNull, Undefined}
           /\ ("from_date" \in keys) <=> (params.from_date # <<>>)
           /\ ("to_date" \in keys) <=> (params.to_date # <<>>)
           /\ ("allowed_x_handles" \in keys) <=>
                 \/ tool = "search_user_posts"
                 \/ posts /\ parseHandles(params.allowed_x_handles) # <<>>
           /\ ("excluded_x_handles" \in keys) <=>
                 (posts /\ parseHandles(params.excluded_x_handles) # <<>>)
           /\ ("enable_image_understanding" \in keys) <=>
                 (posts /\ params.enable_image_understanding)
           /\ ("enable_video_understanding" \in keys) <=>
                 (posts /\ params.enable_video_understanding)

C8_Witness ==
    /\ tool = "search_posts"
    /\ request # NoRequest
    /\ params.from_date = <<>>
    /\ params.to_date = <<"2024-01-15">>
    /\ params.allowed_x_handles = <<" ", ",">>
    /\ params.enable_image_understanding
    /\ ~params.enable_video_understanding
    /\ { XSearchConfig.m[i][1] : i \in 1..Len(XSearchConfig.m) } =
           { "max_results", "search_mode", "freshness", "language", "to_date",
             "enable_image_understanding" }

\* C9: a search call makes a single attempt: at most one HTTP request is
\* issued whatever the outcome, none without a credential, and a failed
\* request is not followed by a second one.
C9_SingleAttempt ==
    /\ fetchCount <= 1
    /\ apiKey = <<>> => fetchCount = 0
    /\ (fetchCount = 0) <=> (request = NoRequest)
    /\ (pc = "done" /\ apiKey # <<>>) => fetchCount = 1

C9_Witness ==
    /\ pc = "done"
    /\ failure = [kind |-> "network", phase |-> "headers"]
    /\ outcome = Returned(ConnectFailedPrefix \o ErrorText("network"))
    /\ fetchCount = 1

\* C10: in every outbound request of the three tools each element of
\* allowed_x_handles and excluded_x_handles is a bare handle, non-empty and
\* not starting with '@' or the full-width '@'.
C10_OutboundHandlesBare ==
    request # NoRequest =>
        \A key \in { "allowed_x_handles", "excluded_x_handles" } :
            HasKey(XSearchConfig, key) =>
                LET list == Get(XSearchConfig, key).a
                IN \A i \in 1..Len(list) :
                       /\ list[i].s # <<>>
                       /\ Head(list[i].s) \notin { "@", FullWidthAt }

====
